---- MODULE Spec2Model ----
(***************************************************************************)
(* PEGCA VM-consolidation simulator (src/pegca_sim.py).                    *)
(*                                                                         *)
(* Fixed-point units used for the program's floats:                        *)
(*   CPU / memory percentages (samples, predictions, loads, thresholds):   *)
(*       1 unit = 0.0001 %          (100 % = 1000000)                      *)
(*   fractions of capacity (target_util, hi_watermark):                    *)
(*       1 unit = 0.0001            (0.80 = 8000)                          *)
(*   alpha: tenths                  (0.6 = 6)                              *)
(*   dt_hours: hundredths of hours  (1.0 = 100)                            *)
(*   energy: 1 unit = 0.00001 kWh   (watts * dt_hours(1/100 h) / 1000)     *)
(*   utilization figures of the summary: 1 unit = 0.000001                 *)
(* Arithmetic is exact on these units; binary floating-point error of the  *)
(* Python floats is not modelled.                                          *)
(***************************************************************************)
EXTENDS Integers, Sequences, FiniteSets, TLC

\* ---------------------------------------------------------------- bounds
MaxHosts == 2
MaxVMs == 3
MaxCycles == 2
MaxRuns == 2
NSeeds == 4

\* ------------------------------------------------------ program constants
CpuCap == 100
MemCap == 100
PowerIdleWatts == 120
TargetFloor == 7000
TargetStep == 200
InitCpuLo == 100000
InitCpuHi == 600000
InitMemLo == 50000
InitMemHi == 800000
NoiseHalfWidth == 80000
UseMax == 1000000
QuantileN == 20
DefaultCycles == 24
NoHost == -1

\* The seeded pseudo-random stream (random.seed / random.uniform): a linear
\* congruential generator whose high bits give random() in eighths.
RngMod == 16
RngMul == 5
RngInc == 3
RngLevels == 8

\* Configuration values a caller may pass to Config(...)
Alphas == {0, 6, 10}
Thresholds == {300000, 1000000}
TargetUtils == {6000, 7100, 8000, 8004, 10000}
HiWatermarks == {3000, 9000}
DtHours == {1, 100}

\* short runs over every combination of the option values
ShortConfigs ==
  [alpha : Alphas, low_usage_threshold : Thresholds, target_util : TargetUtils,
   hi_watermark : HiWatermarks, dt_hours : DtHours, cycles : 0..MaxCycles,
   n_hosts : 1..MaxHosts, n_vms : 1..MaxVMs, seed : 0..(NSeeds - 1)]

\* runs of a whole day (the default number of cycles) with the default options,
\* long enough for the demand to reach both ends of [0, 100]
DayConfigs ==
  [alpha : {6}, low_usage_threshold : {300000}, target_util : {8000},
   hi_watermark : {9000}, dt_hours : {100}, cycles : {DefaultCycles},
   n_hosts : 1..MaxHosts, n_vms : 1..MaxVMs, seed : 0..(NSeeds - 1)]

Configs == ShortConfigs \cup DayConfigs

VARIABLES
  cfg,              \* the Config record passed to simulate(); target_util is mutated
  configured,       \* the values given to Config(...) by the caller
  run,              \* number of simulate(cfg) calls made so far
  pc,               \* position inside simulate()
  rng,              \* state of the seeded random stream
  status,           \* hosts: id -> "ON" | "OFF"
  host_id,          \* vms: id -> host id
  cpu_use_hist,     \* vms: id -> sequence of samples
  mem_use_hist,
  pred_cpu,         \* vms: id -> prediction
  pred_mem,
  total_kwh, total_migrations, total_breaches,
  t,                \* cycle index
  on,               \* local: sequence of ON host ids
  cpu_loads, mem_loads,   \* local: running tallies, keyed by the ids in on
  order,            \* local: sorted(cands), a sequence of VM ids
  k,                \* local: position of the planning loop in order
  dst,              \* local: result of the last first_fit call
  plan,             \* local: sequence of <<vm_id, src, dst>>
  breach,           \* local: result of any_high_watermark
  starts,           \* per run: cfg.target_util on entry to simulate()
  cycle_log,        \* per run: the state at the end of each cycle
  results           \* per run: the summary record returned

vars == <<cfg, configured, run, pc, rng, status, host_id, cpu_use_hist, mem_use_hist,
          pred_cpu, pred_mem, total_kwh, total_migrations, total_breaches, t, on,
          cpu_loads, mem_loads, order, k, dst, plan, breach, starts, cycle_log, results>>

\* ---------------------------------------------------------------- helpers
Max2(a, b) == IF a >= b THEN a ELSE b
Min2(a, b) == IF a <= b THEN a ELSE b

\* _bounded(x, lo, hi)
Bounded(x, lo, hi) == Max2(lo, Min2(hi, x))

\* round(x, ndigits) for x = num/den: the nearest integer to num/den. An exact
\* tie goes to the even neighbour; the program rounds the binary float nearest
\* to the tie, which may lie on either side of it.
RoundDiv(num, den) ==
  LET q == num \div den
      r == num % den
  IN  IF 2 * r < den THEN q
      ELSE IF 2 * r > den THEN q + 1
      ELSE IF q % 2 = 0 THEN q ELSE q + 1

\* round(x, 3) of a value in units of 0.0001, result in the same units
Round3(x) == 10 * RoundDiv(x, 10)

\* mutant of Seed: the stream is seeded on the first call only
SeedOnFirstCallOnly(seed) == IF run = 0 THEN (7 * seed + 1) % RngMod ELSE rng

\* random.seed(seed)
Seed(seed) == (7 * seed + 1) % RngMod

\* the generator's next state; its current output level is state \div 2
RngNext(x) == (RngMul * x + RngInc) % RngMod
RngLevel(x) == (x * RngLevels) \div RngMod

\* random.uniform(a, b) = a + (b - a) * random()
Uniform(a, b, x) == a + ((b - a) * RngLevel(x)) \div RngLevels

\* 10.0 * sin(2*pi*(t % 24)/24), to the nearest 0.005 %
SinQuarter == <<0, 25900, 50000, 70700, 86600, 96600, 100000>>
DiurnalDrift(tt) ==
  LET h == tt % 24
  IN  IF h <= 6 THEN SinQuarter[h + 1]
      ELSE IF h <= 12 THEN SinQuarter[13 - h]
      ELSE IF h <= 18 THEN -SinQuarter[h - 11]
      ELSE -SinQuarter[25 - h]

\* synth_drift(t), given the generator state consumed by random.uniform
SynthDrift(tt, x) == DiurnalDrift(tt) + Uniform(-NoiseHalfWidth, NoiseHalfWidth, x)

\* the generator state after n draws
RECURSIVE RngAfter(_, _)
RngAfter(x, n) == IF n = 0 THEN x ELSE RngAfter(RngNext(x), n - 1)

Last(s) == s[Len(s)]
Prev(s) == s[Len(s) - 1]

\* ------------------------------------------------------------------ state
VMs == 0..(cfg.n_vms - 1)
Hosts == 0..(cfg.n_hosts - 1)

\* the ascending sequence of the elements of a finite set of integers
RECURSIVE Ascending(_)
Ascending(S) ==
  IF S = {} THEN <<>>
  ELSE LET m == CHOOSE x \in S : \A y \in S : x <= y
       IN  <<m>> \o Ascending(S \ {m})

Range(s) == {s[i] : i \in 1..Len(s)}

RECURSIVE SumOver(_, _)
SumOver(f, S) ==
  IF S = {} THEN 0
  ELSE LET x == CHOOSE y \in S : TRUE IN f[x] + SumOver(f, S \ {x})

\* mutant of ActiveHosts: the status of a host is not looked at
ActiveHostsAll(st) == Ascending(DOMAIN st)

\* active_hosts(hosts) / off_hosts(hosts), in list order
ActiveHosts(st) == Ascending({h \in DOMAIN st : st[h] = "ON"})
OffHosts(st) == Ascending({h \in DOMAIN st : st[h] = "OFF"})

\* mutant of LoadsPredicted: the tallies start from zero
LoadsPredictedFromZero(onHosts, hid, pred) == [h \in Range(onHosts) |-> 0]

\* loads_predicted(hosts, vms): one dimension of the pair it returns
LoadsPredicted(onHosts, hid, pred) ==
  [h \in Range(onHosts) |-> SumOver(pred, {v \in DOMAIN hid : hid[v] = h})]

\* mutant of PredictEma: the prediction misses the newest sample
PredictEmaStale(hist, alpha) ==
  (alpha * Prev(hist) + (10 - alpha) * hist[Max2(1, Len(hist) - 2)]) \div 10

\* mutant of PredictEma: the trend of the last two samples is extrapolated
PredictEmaExtrapolated(hist, alpha) ==
  Last(hist) + (alpha * (Last(hist) - Prev(hist))) \div 10

\* predict_ema(vm, alpha), one dimension
PredictEma(hist, alpha) == (alpha * Last(hist) + (10 - alpha) * Prev(hist)) \div 10

Init ==
  /\ cfg \in Configs
  /\ configured = cfg
  /\ run = 0
  /\ pc = "start"
  /\ rng = 0
  /\ status = <<>>
  /\ host_id = <<>>
  /\ cpu_use_hist = <<>>
  /\ mem_use_hist = <<>>
  /\ pred_cpu = <<>>
  /\ pred_mem = <<>>
  /\ total_kwh = 0
  /\ total_migrations = 0
  /\ total_breaches = 0
  /\ t = 0
  /\ on = <<>>
  /\ cpu_loads = <<>>
  /\ mem_loads = <<>>
  /\ order = <<>>
  /\ k = 1
  /\ dst = NoHost
  /\ plan = <<>>
  /\ breach = FALSE
  /\ starts = <<>>
  /\ cycle_log = <<>>
  /\ results = <<>>

\* ----------------------------------------------------------------- setup
\* init_cpu of VM i: the (i+1)-th draw after seeding
InitCpu(seed, i) == Uniform(InitCpuLo, InitCpuHi, RngAfter(Seed(seed), i))
InitMem(seed, i) == Bounded((InitCpu(seed, i) * 8) \div 10, InitMemLo, InitMemHi)

\* simulate(cfg), lines 110-123: seed, create hosts and VMs, zero the totals.
\* Called once on the fresh record and again, by a caller that keeps the
\* record, after a run has returned.
Simulate ==
  /\ pc \in {"start", "done"}
  /\ run < MaxRuns
  /\ run' = run + 1
  /\ starts' = Append(starts, cfg.target_util)
  /\ cycle_log' = Append(cycle_log, <<>>)
  /\ rng' = RngAfter(Seed(cfg.seed), cfg.n_vms)
  /\ status' = [h \in Hosts |-> "ON"]
  /\ host_id' = [v \in VMs |-> v % cfg.n_hosts]
  /\ cpu_use_hist' = [v \in VMs |-> <<InitCpu(cfg.seed, v), InitCpu(cfg.seed, v)>>]
  /\ mem_use_hist' = [v \in VMs |-> <<InitMem(cfg.seed, v), InitMem(cfg.seed, v)>>]
  /\ pred_cpu' = [v \in VMs |-> InitCpu(cfg.seed, v)]
  /\ pred_mem' = [v \in VMs |-> InitMem(cfg.seed, v)]
  /\ total_kwh' = 0
  /\ total_migrations' = 0
  /\ total_breaches' = 0
  /\ t' = 0
  /\ on' = <<>>
  /\ cpu_loads' = <<>>
  /\ mem_loads' = <<>>
  /\ order' = <<>>
  /\ k' = 1
  /\ dst' = NoHost
  /\ plan' = <<>>
  /\ breach' = FALSE
  /\ pc' = IF cfg.cycles > 0 THEN "update" ELSE "summary"
  /\ UNCHANGED <<cfg, configured, results>>

\* -------------------------------------------------- 1) demand update
\* lines 127-132: VM v consumes the (v+1)-th draw of the cycle
NewCpu(v) == Bounded(Last(cpu_use_hist[v]) + SynthDrift(t, RngAfter(rng, v)), 0, UseMax)
NewMem(v) ==
  Bounded(Last(mem_use_hist[v]) + (SynthDrift(t, RngAfter(rng, v)) * 8) \div 10, 0, UseMax)

UpdateUsage ==
  /\ pc = "update"
  /\ cpu_use_hist' = [v \in VMs |-> Append(cpu_use_hist[v], NewCpu(v))]
  /\ mem_use_hist' = [v \in VMs |-> Append(mem_use_hist[v], NewMem(v))]
  /\ rng' = RngAfter(rng, cfg.n_vms)
  /\ pc' = "predict"
  /\ UNCHANGED <<cfg, configured, run, status, host_id, pred_cpu, pred_mem, total_kwh,
                 total_migrations, total_breaches, t, on, cpu_loads, mem_loads, order,
                 k, dst, plan, breach, starts, cycle_log, results>>

\* -------------------------------------------------- 2) prediction
Predict ==
  /\ pc = "predict"
  /\ pred_cpu' = [v \in VMs |-> PredictEma(cpu_use_hist[v], cfg.alpha)]
  /\ pred_mem' = [v \in VMs |-> PredictEma(mem_use_hist[v], cfg.alpha)]
  /\ pc' = "select"
  /\ UNCHANGED <<cfg, configured, run, rng, status, host_id, cpu_use_hist, mem_use_hist,
                 total_kwh, total_migrations, total_breaches, t, on, cpu_loads,
                 mem_loads, order, k, dst, plan, breach, starts, cycle_log, results>>

\* -------------------------------------------------- 3)-4) planning
\* line 139: the low-usage candidates
Cands == {v \in VMs : pred_cpu[v] <= cfg.low_usage_threshold}

\* mutant of SortedCands: an ascending sort read backwards, which puts VMs of
\* equal pred_cpu in descending id order
RECURSIVE SortedCandsAscendingReversed(_)
SortedCandsAscendingReversed(S) ==
  IF S = {} THEN <<>>
  ELSE LET m == CHOOSE x \in S :
                  \A y \in S : \/ pred_cpu[x] > pred_cpu[y]
                               \/ (pred_cpu[x] = pred_cpu[y] /\ x >= y)
       IN  <<m>> \o SortedCandsAscendingReversed(S \ {m})

\* line 147: sorted(cands, key=pred_cpu, reverse=True); the sort is stable, so
\* VMs of equal pred_cpu stay in list (id) order
RECURSIVE SortedCands(_)
SortedCands(S) ==
  IF S = {} THEN <<>>
  ELSE LET m == CHOOSE x \in S :
                  \A y \in S : \/ pred_cpu[x] > pred_cpu[y]
                               \/ (pred_cpu[x] = pred_cpu[y] /\ x <= y)
       IN  <<m>> \o SortedCands(S \ {m})

\* mutant of Fits: the VM's own demand is not added to the tally
FitsWithoutVm(v, h, cl, ml, tu) ==
  /\ cl[h] <= CpuCap * tu
  /\ ml[h] <= MemCap * tu

\* lines 87-88: the condition first_fit tests on host h
Fits(v, h, cl, ml, tu) ==
  /\ cl[h] + pred_cpu[v] <= CpuCap * tu
  /\ ml[h] + pred_mem[v] <= MemCap * tu

\* first_fit(vm, on_hosts, cpu_loads, mem_loads, target_util): scan from position i
RECURSIVE FirstFitFrom(_, _, _, _, _, _)
FirstFitFrom(i, v, onHosts, cl, ml, tu) ==
  IF i > Len(onHosts) THEN NoHost
  ELSE IF Fits(v, onHosts[i], cl, ml, tu) THEN onHosts[i]
  ELSE FirstFitFrom(i + 1, v, onHosts, cl, ml, tu)

\* mutant of FirstFit: the scan returns the last fitting host
FirstFitLast(v, onHosts, cl, ml, tu) ==
  LET F == {i \in 1..Len(onHosts) : Fits(v, onHosts[i], cl, ml, tu)}
  IN  IF F = {} THEN NoHost ELSE onHosts[CHOOSE i \in F : \A j \in F : j <= i]

FirstFit(v, onHosts, cl, ml, tu) == FirstFitFrom(1, v, onHosts, cl, ml, tu)

\* mutant of Accepted: the no-op test is missing
AcceptedAnyHost(d, v) == d # NoHost

\* mutant of Accepted: the destination is compared with the VM's id
AcceptedComparingVmId(d, v) == d # NoHost /\ d # v

\* line 149: is the destination found for VM v recorded as a move
Accepted(d, v) == d # NoHost /\ d # host_id[v]

\* lines 139-147: candidates, ON hosts, tallies, empty plan, sorted order
Select ==
  /\ pc = "select"
  /\ on' = ActiveHosts(status)
  /\ cpu_loads' = LoadsPredicted(ActiveHosts(status), host_id, pred_cpu)
  /\ mem_loads' = LoadsPredicted(ActiveHosts(status), host_id, pred_mem)
  /\ plan' = <<>>
  /\ order' = SortedCands(Cands)
  /\ k' = 1
  /\ dst' = NoHost
  /\ pc' = IF Cands = {} THEN "execute" ELSE "plan"
  /\ UNCHANGED <<cfg, configured, run, rng, status, host_id, cpu_use_hist, mem_use_hist,
                 pred_cpu, pred_mem, total_kwh, total_migrations, total_breaches, t,
                 breach, starts, cycle_log, results>>

\* lines 147-152: one iteration of the planning loop
PlanStep ==
  /\ pc = "plan"
  /\ LET v == order[k]
         d == FirstFit(v, on, cpu_loads, mem_loads, cfg.target_util)
     IN  /\ dst' = d
         /\ plan' = IF Accepted(d, v) THEN Append(plan, <<v, host_id[v], d>>) ELSE plan
         /\ cpu_loads' = IF Accepted(d, v)
                         THEN [cpu_loads EXCEPT ![d] = @ + pred_cpu[v]] ELSE cpu_loads
         /\ mem_loads' = IF Accepted(d, v)
                         THEN [mem_loads EXCEPT ![d] = @ + pred_mem[v]] ELSE mem_loads
  /\ k' = k + 1
  /\ pc' = IF k = Len(order) THEN "execute" ELSE "plan"
  /\ UNCHANGED <<cfg, configured, run, rng, status, host_id, cpu_use_hist, mem_use_hist,
                 pred_cpu, pred_mem, total_kwh, total_migrations, total_breaches, t, on,
                 order, breach, starts, cycle_log, results>>

\* -------------------------------------------------- 5) execution
\* lines 155-156: apply the moves in plan order
RECURSIVE ApplyPlan(_, _, _)
ApplyPlan(hid, p, i) ==
  IF i > Len(p) THEN hid
  ELSE ApplyPlan([hid EXCEPT ![p[i][1]] = p[i][3]], p, i + 1)

\* mutant of CountMigrations: the total is assigned, not accumulated
CountMigrationsAssigned(total, p) == Len(p)

\* mutant of CountMigrations: a cycle with moves counts once
CountMigrationsPerCycle(total, p) == total + (IF p = <<>> THEN 0 ELSE 1)

\* line 157
CountMigrations(total, p) == total + Len(p)

Execute ==
  /\ pc = "execute"
  /\ host_id' = ApplyPlan(host_id, plan, 1)
  /\ total_migrations' = CountMigrations(total_migrations, plan)
  /\ pc' = "shutdown"
  /\ UNCHANGED <<cfg, configured, run, rng, status, cpu_use_hist, mem_use_hist, pred_cpu,
                 pred_mem, total_kwh, total_breaches, t, on, cpu_loads, mem_loads, order,
                 k, dst, plan, breach, starts, cycle_log, results>>

\* -------------------------------------------------- 6) shutdown
\* mutant of HasVm: the placement before the moves of the plan were applied
HasVmBeforeMoves(h, hid) ==
  \/ \E v \in DOMAIN hid : hid[v] = h
  \/ \E i \in 1..Len(plan) : plan[i][2] = h

\* lines 160-163
HasVm(h, hid) == \E v \in DOMAIN hid : hid[v] = h

\* mutant of StatusAfterShutdown: every host not switched OFF is set ON
StatusRecomputed(h, st, onHosts, hid) ==
  IF h \in Range(onHosts) /\ ~HasVm(h, hid) THEN "OFF" ELSE "ON"

\* mutant of StatusAfterShutdown: the shutdown loop is missing
StatusKept(h, st, onHosts, hid) == st[h]

\* lines 164-166: the status of host h after the shutdown loop over on
StatusAfterShutdown(h, st, onHosts, hid) ==
  IF h \in Range(onHosts) /\ ~HasVm(h, hid) THEN "OFF" ELSE st[h]

Shutdown ==
  /\ pc = "shutdown"
  /\ status' = [h \in DOMAIN status |-> StatusAfterShutdown(h, status, on, host_id)]
  /\ pc' = "energy"
  /\ UNCHANGED <<cfg, configured, run, rng, host_id, cpu_use_hist, mem_use_hist, pred_cpu,
                 pred_mem, total_kwh, total_migrations, total_breaches, t, on, cpu_loads,
                 mem_loads, order, k, dst, plan, breach, starts, cycle_log, results>>

\* -------------------------------------------------- 7) energy accounting
\* mutant of CycleEnergy: the hosts that were OFF before this cycle's shutdown
CycleEnergyBeforeShutdown(st, dt) ==
  (Cardinality(DOMAIN st) - Len(on)) * PowerIdleWatts * dt

\* line 170: the energy added this cycle
CycleEnergy(st, dt) == Len(OffHosts(st)) * PowerIdleWatts * dt

Energy ==
  /\ pc = "energy"
  /\ total_kwh' = total_kwh + CycleEnergy(status, cfg.dt_hours)
  /\ pc' = "feedback"
  /\ UNCHANGED <<cfg, configured, run, rng, status, host_id, cpu_use_hist, mem_use_hist,
                 pred_cpu, pred_mem, total_migrations, total_breaches, t, on, cpu_loads,
                 mem_loads, order, k, dst, plan, breach, starts, cycle_log, results>>

\* -------------------------------------------------- 8) monitoring & feedback
\* any_high_watermark(cpu_loads, on_hosts, hi_watermark)
AnyHighWatermark(cl, onHosts, st, hw) ==
  \E h \in DOMAIN cl :
     LET cap == IF h \in Range(onHosts) /\ st[h] = "ON" THEN CpuCap ELSE 0
     IN  cap > 0 /\ cl[h] > cap * hw

\* mutant of TightenedTarget: the floor is missing
TightenedWithoutFloor(tu) == Round3(tu - TargetStep)

\* line 179
TightenedTarget(tu) == Max2(TargetFloor, Round3(tu - TargetStep))

\* line 177
CountBreach(total) == total + 1

Snapshot(tu, br, tb) ==
  [status |-> status, host_id |-> host_id, pred_cpu |-> pred_cpu, pred_mem |-> pred_mem,
   plan |-> plan, total_kwh |-> total_kwh, total_migrations |-> total_migrations,
   total_breaches |-> tb, breach |-> br, target_util |-> tu]

Feedback ==
  /\ pc = "feedback"
  /\ LET newOn == ActiveHosts(status)
         loads == LoadsPredicted(newOn, host_id, pred_cpu)
         br == AnyHighWatermark(loads, newOn, status, cfg.hi_watermark)
         tu == IF br THEN TightenedTarget(cfg.target_util) ELSE cfg.target_util
         tb == IF br THEN CountBreach(total_breaches) ELSE total_breaches
     IN  /\ on' = newOn
         /\ cpu_loads' = loads
         /\ breach' = br
         /\ total_breaches' = tb
         /\ cfg' = [cfg EXCEPT !.target_util = tu]
         /\ cycle_log' = [cycle_log EXCEPT ![run] = Append(@, Snapshot(tu, br, tb))]
  /\ t' = t + 1
  /\ pc' = IF t + 1 < cfg.cycles THEN "update" ELSE "summary"
  /\ UNCHANGED <<configured, run, rng, status, host_id, cpu_use_hist, mem_use_hist,
                 pred_cpu, pred_mem, total_kwh, total_migrations, mem_loads, order, k,
                 dst, plan, starts, results>>

\* -------------------------------------------------- summary
\* line 185: utilization of each ON host, in dict (host id) order
Utils(onHosts, cl) == [i \in 1..Len(onHosts) |-> (cl[onHosts[i]] * 100) \div CpuCap]

RECURSIVE SeqSum(_)
SeqSum(s) == IF s = <<>> THEN 0 ELSE s[1] + SeqSum(Tail(s))

RECURSIVE SeqMax(_)
SeqMax(s) == IF Len(s) = 1 THEN s[1] ELSE Max2(s[1], SeqMax(Tail(s)))

\* sorted(data)
RECURSIVE Insert(_, _)
Insert(x, s) ==
  IF s = <<>> THEN <<x>>
  ELSE IF x <= s[1] THEN <<x>> \o s ELSE <<s[1]>> \o Insert(x, Tail(s))

RECURSIVE Sorted(_)
Sorted(s) == IF s = <<>> THEN <<>> ELSE Insert(s[1], Sorted(Tail(s)))

\* round(statistics.mean(utils), 4)
UtilMean(utils) ==
  IF utils = <<>> THEN 0 ELSE 100 * RoundDiv(SeqSum(utils), Len(utils) * 100)

\* round(statistics.quantiles(utils, n=20)[-1], 4), the default exclusive method
LastQuantile(utils) ==
  LET data == Sorted(utils)
      ld == Len(data)
      i == QuantileN - 1
      j0 == (i * (ld + 1)) \div QuantileN
      j == IF j0 < 1 THEN 1 ELSE IF j0 > ld - 1 THEN ld - 1 ELSE j0
      delta == i * (ld + 1) - j * QuantileN
  IN  100 * RoundDiv(data[j] * (QuantileN - delta) + data[j + 1] * delta, QuantileN * 100)

\* line 188
UtilP95(utils) ==
  IF Len(utils) >= QuantileN THEN LastQuantile(utils)
  ELSE IF utils # <<>> THEN SeqMax(utils) ELSE 0

\* lines 190-198
Result(st, hid, pc_) ==
  LET onHosts == ActiveHosts(st)
      utils == Utils(onHosts, LoadsPredicted(onHosts, hid, pc_))
  IN  [energy_kwh_total |-> 100 * RoundDiv(total_kwh, 100),
       migrations_total |-> total_migrations,
       hosts_off_final |-> Len(OffHosts(st)),
       util_mean_final |-> UtilMean(utils),
       util_p95_final |-> UtilP95(utils),
       hi_watermark_breaches |-> total_breaches,
       final_target_util |-> Round3(cfg.target_util)]

\* lines 182-199
Summary ==
  /\ pc = "summary"
  /\ on' = ActiveHosts(status)
  /\ cpu_loads' = LoadsPredicted(ActiveHosts(status), host_id, pred_cpu)
  /\ results' = Append(results, Result(status, host_id, pred_cpu))
  /\ pc' = "done"
  /\ UNCHANGED <<cfg, configured, run, rng, status, host_id, cpu_use_hist, mem_use_hist,
                 pred_cpu, pred_mem, total_kwh, total_migrations, total_breaches, t,
                 mem_loads, order, k, dst, plan, breach, starts, cycle_log>>

Next ==
  \/ Simulate
  \/ UpdateUsage
  \/ Predict
  \/ Select
  \/ PlanStep
  \/ Execute
  \/ Shutdown
  \/ Energy
  \/ Feedback
  \/ Summary

Spec == Init /\ [][Next]_vars

\* ================================================================ claims
\* helpers of the claims: quantities recomputed from the VM and host records
InRun == run >= 1 /\ pc # "start"
RealCpuLoad(h) == SumOver(pred_cpu, {v \in DOMAIN host_id : host_id[v] = h})
NumOff(st) == Cardinality({h \in DOMAIN st : st[h] = "OFF"})
Planning == pc \in {"plan", "execute"}
MovedVms == {plan[i][1] : i \in 1..Len(plan)}

\* C1: across the cycles of one run, for any configured starting target_util,
\* the feedback step of a cycle never leaves target_util higher than it found
\* it, and never leaves it below the floor 0.70.
C1_TargetNeverIncreasesNorBelowFloor ==
  [][pc = "feedback" =>
       /\ cfg'.target_util <= cfg.target_util
       /\ cfg'.target_util >= TargetFloor]_vars

\* C3: within one run a host that is OFF stays OFF in every later step, the only
\* change of a host's status is ON to OFF, and so the number of OFF hosts never
\* decreases.
C3_ShutdownIrreversible ==
  [][run' = run =>
       /\ DOMAIN status' = DOMAIN status
       /\ \A h \in DOMAIN status :
            /\ status[h] = "OFF" => status'[h] = "OFF"
            /\ status'[h] # status[h] => (status[h] = "ON" /\ status'[h] = "OFF")
       /\ NumOff(status') >= NumOff(status)]_vars

\* C3 witness: a host switched OFF in the first cycle is still OFF after the
\* shutdown step of a later cycle.
C3_Witness ==
  /\ pc = "energy"
  /\ t >= 1
  /\ \E h \in DOMAIN status : status[h] = "OFF" /\ cycle_log[run][1].status[h] = "OFF"

\* C4: while a cycle's plan is being built, and until it is executed, the tally
\* of every destination of a planned move is within cpu_cap * target_util and
\* mem_cap * target_util, for the target_util in force in that cycle.
C4_CapacityRespectedAtPlanning ==
  Planning =>
    \A i \in 1..Len(plan) :
       /\ cpu_loads[plan[i][3]] <= CpuCap * cfg.target_util
       /\ mem_loads[plan[i][3]] <= MemCap * cfg.target_util

\* C4 witness: a move has just been accepted and the destination's tally has
\* grown beyond the load the host had when planning started.
C4_Witness ==
  /\ Planning
  /\ k > 1
  /\ plan # <<>>
  /\ plan[Len(plan)] = <<order[k - 1], host_id[order[k - 1]], dst>>
  /\ cpu_loads[dst] = RealCpuLoad(dst) + pred_cpu[order[k - 1]]
  /\ pred_cpu[order[k - 1]] > 0

\* C5: every move of the plan has src # dst and a dst that was ON when planning
\* started (and is ON still); the candidate just considered produced no move if
\* first_fit returned its own host or no host.
C5_NoNoOpMoves ==
  pc \in {"plan", "execute", "shutdown"} =>
    /\ \A i \in 1..Len(plan) :
         /\ plan[i][2] # plan[i][3]
         /\ plan[i][3] \in Range(on)
         /\ status[plan[i][3]] = "ON"
    /\ (Planning /\ k > 1 /\ (dst = NoHost \/ dst = host_id[order[k - 1]]))
         => order[k - 1] \notin MovedVms

\* C5 witness: first_fit returned the candidate's own host, no move was made
\* for it, and the plan holds a move of another VM.
C5_Witness ==
  /\ Planning
  /\ k > 1
  /\ dst = host_id[order[k - 1]]
  /\ plan # <<>>

\* C6: with 1 host and 1 VM, low_usage_threshold = 100 and target_util = 0.8,
\* no migration is ever made, the host stays ON and no energy is counted, and
\* the summary says so.
C6_SingleHostSingleVm ==
  (/\ InRun
   /\ cfg.n_hosts = 1 /\ cfg.n_vms = 1
   /\ cfg.low_usage_threshold = UseMax
   /\ starts[run] = 8000)
  => /\ total_migrations = 0
     /\ status[0] = "ON"
     /\ total_kwh = 0
     /\ pc = "done" =>
          /\ results[run].migrations_total = 0
          /\ results[run].hosts_off_final = 0
          /\ results[run].energy_kwh_total = 0

\* C6 witness: such a run has ended, and its VM was a candidate that fitted its
\* own host.
C6_Witness ==
  /\ pc = "done"
  /\ cfg.n_hosts = 1 /\ cfg.n_vms = 1
  /\ cfg.low_usage_threshold = UseMax
  /\ starts[run] = 8000
  /\ order = <<0>>
  /\ dst = 0

\* ---- the two-host scenario of C2
\* the state recorded at the end of the first cycle of the current run
FirstCycle == cycle_log[run][1]
FirstTarget == starts[run]

\* 2 hosts, 2 VMs one per host, threshold above both predictions, host 0 can
\* absorb the VM of host 1
TwoHostScenario ==
  /\ InRun
  /\ cfg.n_hosts = 2 /\ cfg.n_vms = 2
  /\ Len(cycle_log[run]) >= 1
  /\ FirstCycle.pred_cpu[0] < cfg.low_usage_threshold
  /\ FirstCycle.pred_cpu[1] < cfg.low_usage_threshold
  /\ FirstCycle.pred_cpu[0] + FirstCycle.pred_cpu[1] <= CpuCap * FirstTarget
  /\ FirstCycle.pred_mem[0] + FirstCycle.pred_mem[1] <= MemCap * FirstTarget

\* the VM of host 1 has moved to host 0 and nothing else has
OnlyVm1Moved ==
  /\ FirstCycle.plan = << <<1, 1, 0>> >>
  /\ FirstCycle.total_migrations = 1
  /\ FirstCycle.host_id = [v \in {0, 1} |-> 0]
  /\ FirstCycle.status = [h \in {0, 1} |-> IF h = 1 THEN "OFF" ELSE "ON"]

\* VM 0 fits its own host at its turn: host 0's tally (VM 0 itself, and VM 1 too
\* when VM 1 has the larger pred_cpu and was planned first) plus VM 0 again
Vm0Stays ==
  LET extraCpu == IF FirstCycle.pred_cpu[1] > FirstCycle.pred_cpu[0]
                  THEN FirstCycle.pred_cpu[1] ELSE 0
      extraMem == IF FirstCycle.pred_cpu[1] > FirstCycle.pred_cpu[0]
                  THEN FirstCycle.pred_mem[1] ELSE 0
  IN  /\ 2 * FirstCycle.pred_cpu[0] + extraCpu <= CpuCap * FirstTarget
      /\ 2 * FirstCycle.pred_mem[0] + extraMem <= MemCap * FirstTarget

\* C2 as stated: in the two-host scenario one cycle moves the VM of host 1 to
\* host 0 and nothing else, host 1 goes OFF, and a one-cycle run reports
\* migrations_total = 1, hosts_off_final = 1 and
\* energy_kwh_total = host 1's idle watts * dt_hours / 1000.
C2_TwoHostForcedMigration ==
  TwoHostScenario =>
    /\ OnlyVm1Moved
    /\ (pc = "done" /\ cfg.cycles = 1) =>
         /\ results[run].migrations_total = 1
         /\ results[run].hosts_off_final = 1
         /\ results[run].energy_kwh_total = PowerIdleWatts * cfg.dt_hours

\* C2 amended: the same, provided VM 0 fits its own host at its turn in the
\* planning order, and with the energy figure rounded to 3 decimals.
C2_TwoHostForcedMigrationAmended ==
  (TwoHostScenario /\ Vm0Stays) =>
    /\ OnlyVm1Moved
    /\ (pc = "done" /\ cfg.cycles = 1) =>
         /\ results[run].migrations_total = 1
         /\ results[run].hosts_off_final = 1
         /\ results[run].energy_kwh_total = 100 * RoundDiv(PowerIdleWatts * cfg.dt_hours, 100)

\* C2 witness: a one-cycle run of the scenario has returned with VM 1 moved.
C2_Witness ==
  /\ pc = "done" /\ cfg.cycles = 1
  /\ TwoHostScenario /\ Vm0Stays
  /\ results[run].migrations_total = 1
  /\ results[run].energy_kwh_total > 0

C8_ConfigRecordUntouched ==
  InRun => (cfg.target_util = configured.target_util
            /\ starts[run] = configured.target_util)

\* C9: the running totals of energy, migrations and breaches are 0 when a run
\* starts, are never negative and never decrease within a run.
C9_TotalsMonotone ==
  [][/\ total_kwh' >= 0 /\ total_migrations' >= 0 /\ total_breaches' >= 0
     /\ run' # run => (total_kwh' = 0 /\ total_migrations' = 0 /\ total_breaches' = 0)
     /\ run' = run => /\ total_kwh' >= total_kwh
                      /\ total_migrations' >= total_migrations
                      /\ total_breaches' >= total_breaches]_vars

\* C9 witness: a later cycle of a run in which all three totals have grown.
C9_Witness ==
  /\ InRun
  /\ t >= 1
  /\ total_kwh > 0 /\ total_migrations > 0 /\ total_breaches > 0

\* ---- the feedback step of C10
Exceeding == {h \in DOMAIN status :
                status[h] = "ON" /\ RealCpuLoad(h) > cfg.hi_watermark * CpuCap}

WholeThousandthsFromFloor(x) == x >= TargetFloor /\ x % 10 = 0

FinalTargetFormula ==
  (pc = "done" /\ WholeThousandthsFromFloor(starts[run])) =>
     results[run].final_target_util =
        Max2(TargetFloor, starts[run] - TargetStep * results[run].hi_watermark_breaches)

\* C10 as stated: the feedback step adds exactly 1 to the breach counter iff
\* some ON host exceeds hi_watermark * cpu_cap, and then makes target_util the
\* old value minus 0.02, floored at 0.70; otherwise it changes neither. For a
\* start >= 0.70 in whole thousandths the final target is
\* max(0.70, start - 0.02 * breaches).
C10_BreachFeedback ==
  [][/\ pc = "feedback" =>
         (IF Exceeding # {}
          THEN /\ total_breaches' = total_breaches + 1
               /\ cfg'.target_util = Max2(TargetFloor, cfg.target_util - TargetStep)
          ELSE /\ total_breaches' = total_breaches
               /\ cfg'.target_util = cfg.target_util)
     /\ FinalTargetFormula']_vars

\* C10 amended: as stated, except that in a breach cycle target_util becomes
\* the old value minus 0.02 rounded to 3 decimals, floored at 0.70.
C10_BreachFeedbackAmended ==
  [][/\ pc = "feedback" =>
         (IF Exceeding # {}
          THEN /\ total_breaches' = total_breaches + 1
               /\ cfg'.target_util = Max2(TargetFloor, Round3(cfg.target_util - TargetStep))
          ELSE /\ total_breaches' = total_breaches
               /\ cfg'.target_util = cfg.target_util)
     /\ FinalTargetFormula']_vars

\* C10 witness: a cycle has ended in which two ON hosts exceeded the watermark
\* and the breach counter has grown by one.
C10_Witness ==
  /\ InRun
  /\ pc \in {"update", "summary"}
  /\ Cardinality(Exceeding) >= 2
  /\ breach
  /\ Len(cycle_log[run]) >= 2
  /\ total_breaches = cycle_log[run][Len(cycle_log[run]) - 1].total_breaches + 1

\* ---- the energy accounting of C11
\* the running energy total at the end of the previous cycle of the run
EnergyBeforeCycle ==
  IF cycle_log[run] = <<>> THEN 0 ELSE cycle_log[run][Len(cycle_log[run])].total_kwh

\* the number of logged cycle-ends of the run at which host h was OFF
RECURSIVE CycleEndsOff(_, _)
CycleEndsOff(h, i) ==
  IF i = 0 THEN 0
  ELSE (IF cycle_log[run][i].status[h] = "OFF" THEN 1 ELSE 0) + CycleEndsOff(h, i - 1)

RECURSIVE IdleShares(_)
IdleShares(S) ==
  IF S = {} THEN 0
  ELSE LET h == CHOOSE x \in S : TRUE
       IN  CycleEndsOff(h, Len(cycle_log[run])) * PowerIdleWatts * cfg.dt_hours
             + IdleShares(S \ {h})

\* C11: the energy step of a cycle adds exactly (idle watts of the hosts that
\* are OFF after that cycle's shutdown step, those switched OFF in this cycle
\* included, ON hosts contributing nothing) * dt_hours / 1000, so at the end of
\* a cycle the total is the sum, over the hosts, of the number of cycle-ends at
\* which the host was OFF times its idle share.
C11_EnergyPerCycle ==
  /\ pc = "feedback" =>
       total_kwh = EnergyBeforeCycle + NumOff(status) * PowerIdleWatts * cfg.dt_hours
  /\ (InRun /\ pc \in {"update", "summary", "done"}) =>
       total_kwh = IdleShares(DOMAIN status)

\* C11 witness: a host switched OFF by the first cycle's shutdown was counted
\* in that cycle's energy, and the second cycle's energy step has just counted
\* it a second time, the ON host contributing nothing.
C11_Witness ==
  /\ pc = "feedback"
  /\ t = 1
  /\ \E h \in DOMAIN status :
       /\ status[h] = "OFF"
       /\ cycle_log[run][1].status[h] = "OFF"
       /\ cycle_log[run][1].total_kwh = PowerIdleWatts * cfg.dt_hours
       /\ total_kwh = 2 * PowerIdleWatts * cfg.dt_hours
  /\ \E h \in DOMAIN status : status[h] = "ON"

\* C12: every VM's host_id is always the id of an existing host, and the
\* shutdown step, which runs when all the moves of the plan are applied,
\* switches a host OFF exactly when the host was ON and has zero VMs at that
\* moment.
C12_ShutdownEmptyHosts ==
  [][ /\ \A v \in DOMAIN host_id' : host_id'[v] \in DOMAIN status'
      /\ pc = "shutdown" =>
           /\ \A i \in 1..Len(plan) : host_id[plan[i][1]] = plan[i][3]
           /\ \A h \in DOMAIN status :
                (status[h] = "ON" /\ status'[h] = "OFF")
                  <=> (status[h] = "ON" /\ ~(\E v \in DOMAIN host_id : host_id[v] = h)) ]_vars

\* C12 witness: the shutdown step has switched OFF the host a planned move
\* emptied and left ON the host the VM moved to.
C12_Witness ==
  /\ pc = "energy"
  /\ plan # <<>>
  /\ \E i \in 1..Len(plan) :
       /\ status[plan[i][2]] = "OFF"
       /\ plan[i][2] \in Range(on)
       /\ status[plan[i][3]] = "ON"
       /\ host_id[plan[i][1]] = plan[i][3]

\* ---- the rounding of the summary record, C13
\* utilization figures are in units of 0.000001, energy in units of
\* 0.00001 kWh, target_util in units of 0.0001
RoundedTo4Places(u) == u % 100 = 0
EnergyRoundedTo3Places(e) == e % 100 = 0
TargetRoundedTo3Places(x) == x % 10 = 0

\* C13: every utilization figure of the summary record is rounded to 4
\* decimal places, util_mean_final and util_p95_final alike, the latter also
\* when it falls back to the maximum utilization over the ON hosts;
\* energy_kwh_total and final_target_util are rounded to 3 places.
C13_SummaryRounded ==
  (pc = "done" /\ run >= 1) =>
     /\ RoundedTo4Places(results[run].util_mean_final)
     /\ RoundedTo4Places(results[run].util_p95_final)
     /\ EnergyRoundedTo3Places(results[run].energy_kwh_total)
     /\ TargetRoundedTo3Places(results[run].final_target_util)

\* ---- first-fit, C14
\* the demand the plan built so far has added to host h
RECURSIVE PlannedArrivals(_, _, _)
PlannedArrivals(pred, h, i) ==
  IF i = 0 THEN 0
  ELSE (IF plan[i][3] = h THEN pred[plan[i][1]] ELSE 0) + PlannedArrivals(pred, h, i - 1)

RealMemLoad(h) == SumOver(pred_mem, {v \in DOMAIN host_id : host_id[v] = h})

\* the ON hosts on which VM v passes both capacity tests against the tallies
FittingHosts(v) ==
  {h \in DOMAIN status :
     /\ status[h] = "ON"
     /\ cpu_loads[h] + pred_cpu[v] <= CpuCap * cfg.target_util
     /\ mem_loads[h] + pred_mem[v] <= MemCap * cfg.target_util}

\* C14: the destination first-fit returns for a candidate is the lowest-id host,
\* among those ON when planning started, whose running CPU tally plus pred_cpu
\* is <= cpu_cap * target_util and whose running memory tally plus pred_mem is
\* <= mem_cap * target_util, and none exactly when no ON host passes both; the
\* tally compared is the placed load plus every move accepted earlier in the pass.
C14_FirstFitLowestId ==
  [][ pc = "plan" =>
        /\ \A h \in DOMAIN status :
             status[h] = "ON" =>
               /\ cpu_loads[h] = RealCpuLoad(h) + PlannedArrivals(pred_cpu, h, Len(plan))
               /\ mem_loads[h] = RealMemLoad(h) + PlannedArrivals(pred_mem, h, Len(plan))
        /\ (dst' = NoHost) <=> (FittingHosts(order[k]) = {})
        /\ dst' # NoHost =>
             /\ dst' \in FittingHosts(order[k])
             /\ \A h \in FittingHosts(order[k]) : dst' <= h ]_vars

\* C14 witness: after an earlier move was accepted onto the lowest ON host, that
\* host no longer fits the next candidate, and first-fit returned the second ON
\* host for it.
C14_Witness ==
  /\ Planning
  /\ k > 2
  /\ Len(on) = 2
  /\ \E i \in 1..Len(plan) : plan[i][3] = on[1] /\ plan[i][1] # order[k - 1]
  /\ dst = on[2]

\* ---- the planning order, C15
\* the position of VM v in the planning order
PosInOrder(v) == CHOOSE i \in 1..Len(order) : order[i] = v

\* C15: the planner considers exactly the VMs whose pred_cpu is <=
\* low_usage_threshold, each once per cycle, by pred_cpu descending with VMs of
\* equal pred_cpu in VM-id order, and the moves of the plan appear in that order.
C15_PlanningOrder ==
  Planning =>
    /\ Range(order) = {v \in DOMAIN pred_cpu : pred_cpu[v] <= cfg.low_usage_threshold}
    /\ \A i, j \in 1..Len(order) : i # j => order[i] # order[j]
    /\ \A i, j \in 1..Len(order) :
         i < j => \/ pred_cpu[order[i]] > pred_cpu[order[j]]
                  \/ pred_cpu[order[i]] = pred_cpu[order[j]] /\ order[i] < order[j]
    /\ pc = "execute" => k = Len(order) + 1
    /\ \A i \in 1..Len(plan) : \E j \in 1..(k - 1) : order[j] = plan[i][1]
    /\ \A i, j \in 1..Len(plan) :
         i < j => PosInOrder(plan[i][1]) < PosInOrder(plan[j][1])

\* C15 witness: the planning loop is over; the order has three candidates, the
\* first two of equal pred_cpu in id order and the third smaller, and a move is
\* in the plan.
C15_Witness ==
  /\ pc = "execute"
  /\ Len(order) = 3
  /\ pred_cpu[order[1]] = pred_cpu[order[2]]
  /\ order[1] < order[2]
  /\ pred_cpu[order[2]] > pred_cpu[order[3]]
  /\ plan # <<>>

\* ---- the order of the steps, C16
\* the steps that may follow step p within a run of c cycles, of which done are
\* logged once p is over
StepsAfter(p, c, done) ==
  CASE p = "start" -> IF c > 0 THEN {"update"} ELSE {"summary"}
    [] p = "done" -> IF c > 0 THEN {"update"} ELSE {"summary"}
    [] p = "update" -> {"predict"}
    [] p = "predict" -> {"select"}
    [] p = "select" -> {"plan", "execute"}
    [] p = "plan" -> {"plan", "execute"}
    [] p = "execute" -> {"shutdown"}
    [] p = "shutdown" -> {"energy"}
    [] p = "energy" -> {"feedback"}
    [] p = "feedback" -> IF done < c THEN {"update"} ELSE {"summary"}
    [] p = "summary" -> {"done"}

\* the target_util the feedback step of the previous cycle left, the
\* configured one in the first cycle
TargetLeftByPreviousCycle ==
  IF t = 0 THEN starts[run] ELSE cycle_log[run][t].target_util

\* C16: each cycle runs demand update, prediction, planning, move execution,
\* shutdown, energy accounting and watermark feedback in this order, for exactly
\* cfg.cycles cycles before the summary is computed once; the predictions the
\* planner reads in cycle t were computed in cycle t from the sample appended in
\* cycle t, and the target_util it uses is the one the feedback step of cycle
\* t-1 left.
C16_StepOrder ==
  [][ /\ pc' \in StepsAfter(pc, cfg.cycles, Len(cycle_log'[run']))
      /\ pc \in {"select", "plan"} =>
           /\ Len(cycle_log[run]) = t
           /\ cfg.target_util = TargetLeftByPreviousCycle
           /\ \A v \in DOMAIN pred_cpu :
                /\ Len(cpu_use_hist[v]) = t + 3
                /\ Len(mem_use_hist[v]) = t + 3
                /\ pred_cpu[v] = (cfg.alpha * cpu_use_hist[v][t + 3]
                                    + (10 - cfg.alpha) * cpu_use_hist[v][t + 2]) \div 10
                /\ pred_mem[v] = (cfg.alpha * mem_use_hist[v][t + 3]
                                    + (10 - cfg.alpha) * mem_use_hist[v][t + 2]) \div 10
      /\ pc = "summary" =>
           /\ t = cfg.cycles
           /\ Len(cycle_log[run]) = cfg.cycles
           /\ Len(results) = run - 1
           /\ Len(results') = run ]_vars

\* C16 witness: the planner of the second cycle works with a target_util the
\* first cycle's feedback lowered and with predictions that differ from the
\* first cycle's.
C16_Witness ==
  /\ pc = "plan"
  /\ t = 1
  /\ cfg.target_util < starts[run]
  /\ cfg.target_util = cycle_log[run][1].target_util
  /\ \E v \in DOMAIN pred_cpu : pred_cpu[v] # cycle_log[run][1].pred_cpu[v]

\* ---- planning against the assignment at the start of the cycle, C17
\* the placement, the statuses and the migration total the previous cycle left
\* (lines 112-123 in the first cycle)
HostAtCycleStart(v) ==
  IF t = 0 THEN v % cfg.n_hosts ELSE cycle_log[run][t].host_id[v]

StatusAtCycleStart(h) ==
  IF t = 0 THEN "ON" ELSE cycle_log[run][t].status[h]

MigrationsAtCycleStart ==
  IF t = 0 THEN 0 ELSE cycle_log[run][t].total_migrations

\* C17: planning changes no VM's host_id and no host's status; each VM is in at
\* most one move of the plan, the src of a move is the VM's host at the start of
\* the cycle, and executing the plan adds exactly the number of planned moves to
\* the migration total.
C17_PlanAgainstCycleStart ==
  /\ Planning =>
       /\ \A v \in DOMAIN host_id : host_id[v] = HostAtCycleStart(v)
       /\ \A h \in DOMAIN status : status[h] = StatusAtCycleStart(h)
       /\ total_migrations = MigrationsAtCycleStart
       /\ \A i, j \in 1..Len(plan) : i # j => plan[i][1] # plan[j][1]
       /\ \A i \in 1..Len(plan) : plan[i][2] = HostAtCycleStart(plan[i][1])
  /\ pc = "shutdown" =>
       /\ total_migrations = MigrationsAtCycleStart + Len(plan)
       /\ \A i \in 1..Len(plan) : plan[i][2] = HostAtCycleStart(plan[i][1])
       /\ \A v \in DOMAIN host_id : v \notin MovedVms => host_id[v] = HostAtCycleStart(v)

\* C17 witness: the second cycle's plan of two moves, one of them of a VM the
\* first cycle had already moved, has been executed.
C17_Witness ==
  /\ pc = "shutdown"
  /\ t = 1
  /\ Len(plan) = 2
  /\ total_migrations > 2
  /\ \E i \in 1..Len(plan) : plan[i][2] # plan[i][1] % cfg.n_hosts

\* ---- placement and host status, C18
\* the states between the shutdown step of a cycle and the next cycle's start
EndOfCycle ==
  \/ pc \in {"energy", "feedback"}
  \/ InRun /\ t >= 1 /\ pc \in {"update", "summary", "done"}

\* C18: at the end of every cycle no VM is on an OFF host and a host is OFF
\* exactly when it has zero VMs; the moves of a plan only target ON hosts, which
\* stay ON through the cycle; with at least one VM, at least one host is ON at
\* every point of a run.
C18_PlacementConsistent ==
  /\ InRun =>
       /\ \A v \in DOMAIN host_id : status[host_id[v]] = "ON"
       /\ DOMAIN host_id # {} => \E h \in DOMAIN status : status[h] = "ON"
  /\ EndOfCycle =>
       \A h \in DOMAIN status :
         status[h] = "OFF" <=> ~(\E v \in DOMAIN host_id : host_id[v] = h)
  /\ pc \in {"plan", "execute", "shutdown", "energy", "feedback"} =>
       \A i \in 1..Len(plan) : status[plan[i][3]] = "ON"

\* C18 witness: at the end of the second cycle one host is OFF since the first
\* cycle, when a planned move emptied it, and every VM is on the ON host.
C18_Witness ==
  /\ pc = "feedback"
  /\ t = 1
  /\ Cardinality(DOMAIN host_id) >= 2
  /\ cycle_log[run][1].plan # <<>>
  /\ \E h \in DOMAIN status :
       /\ status[h] = "OFF"
       /\ \E i \in 1..Len(cycle_log[run][1].plan) : cycle_log[run][1].plan[i][2] = h
  /\ \E h \in DOMAIN status : status[h] = "ON" /\ \A v \in DOMAIN host_id : host_id[v] = h

CompletedUpdates ==
  Len(cycle_log[run])
    + (IF pc \in {"predict", "select", "plan", "execute", "shutdown", "energy", "feedback"}
       THEN 1 ELSE 0)

Between(x, a, b) == Min2(a, b) <= x /\ x <= Max2(a, b)

HistoryShape(hist) ==
  /\ Len(hist) >= 2
  /\ Len(hist) = 2 + CompletedUpdates
  /\ \A i \in 1..Len(hist) : 0 <= hist[i] /\ hist[i] <= UseMax

PredictionInRange(p) == 0 <= p /\ p <= UseMax

PredictionsBetweenLastTwo ==
  \A v \in DOMAIN pred_cpu :
    /\ Between(pred_cpu[v], Prev(cpu_use_hist[v]), Last(cpu_use_hist[v]))
    /\ Between(pred_mem[v], Prev(mem_use_hist[v]), Last(mem_use_hist[v]))

HistoriesWellFormed ==
  \A v \in DOMAIN pred_cpu :
    /\ HistoryShape(cpu_use_hist[v])
    /\ HistoryShape(mem_use_hist[v])
    /\ PredictionInRange(pred_cpu[v])
    /\ PredictionInRange(pred_mem[v])

\* C20 as stated: in every reachable state each history has 2 plus the number
\* of completed demand updates entries, every sample lies in [0, 100], and
\* every pred_cpu and pred_mem lies in [0, 100] between the two most recent
\* samples.
C20_HistoriesAndPredictions ==
  InRun => HistoriesWellFormed /\ PredictionsBetweenLastTwo

\* C20 amended: the same, the predictions lying between the two most recent
\* samples in every state but those between a cycle's demand update and its
\* prediction step, where they still belong to the previous pair of samples.
C20_HistoriesAndPredictionsAmended ==
  InRun => /\ HistoriesWellFormed
           /\ pc # "predict" => PredictionsBetweenLastTwo

\* C20 witness: the prediction step has run on histories that hold a sample
\* clamped at 100 and a sample clamped at 0, and a prediction lies strictly
\* between two different samples.
C20_Witness ==
  /\ pc = "select"
  /\ \E v \in DOMAIN pred_cpu :
       /\ \E i \in 1..Len(cpu_use_hist[v]) : cpu_use_hist[v][i] = UseMax
       /\ \E i \in 1..Len(cpu_use_hist[v]) : cpu_use_hist[v][i] = 0
  /\ \E v \in DOMAIN pred_cpu :
       /\ Min2(Prev(cpu_use_hist[v]), Last(cpu_use_hist[v])) < pred_cpu[v]
       /\ pred_cpu[v] < Max2(Prev(cpu_use_hist[v]), Last(cpu_use_hist[v]))
       /\ Min2(Prev(mem_use_hist[v]), Last(mem_use_hist[v])) < pred_mem[v]
       /\ pred_mem[v] < Max2(Prev(mem_use_hist[v]), Last(mem_use_hist[v]))

====
